---- MODULE Spec2Model ----
(***************************************************************************)
(* Whisper-WA acquisition pipeline: device probe, connect, root check,     *)
(* evidence collection and decryption, as implemented in                   *)
(* Backend/connected.py, Backend/acquisition.py, Backend/decrypt.py and    *)
(* the /api/acquisition/run route of Backend/app.py.                       *)
(*                                                                         *)
(* Every external process invocation is one step of the model; its         *)
(* outcome (exit code, output, exception) is chosen nondeterministically.  *)
(* The Python code that runs between two invocations is part of the step   *)
(* that follows the earlier invocation.                                    *)
(***************************************************************************)
EXTENDS Integers, Sequences, FiniteSets, TLC

(***************************************************************************)
(* Bounds of the model.                                                    *)
(***************************************************************************)
\* number of operations (requests) in one behaviour
MaxRuns == 2
\* longest file content, in bytes
MaxFileLen == 1
\* device files rewritten between two operations
MaxRewritten == 1
\* rows the table account_requests can hold
MaxRequests == 2

(***************************************************************************)
(* Text.  Process output is a sequence of characters, so that lower() and  *)
(* the "in" substring tests are computed as Python computes them.          *)
(***************************************************************************)
EMPTY == <<>>
STR_connected == <<"c", "o", "n", "n", "e", "c", "t", "e", "d">>
STR_already_connected == <<"a", "l", "r", "e", "a", "d", "y", " ", "c", "o", "n", "n", "e", "c", "t", "e", "d">>
STR_uid0 == <<"u", "i", "d", "=", "0">>
OUT_connected_to == <<"c", "o", "n", "n", "e", "c", "t", "e", "d", " ", "t", "o", " ", "h">>
OUT_already_connected_to == <<"a", "l", "r", "e", "a", "d", "y", " ", "c", "o", "n", "n", "e", "c", "t", "e", "d">>
OUT_Connected_upper == <<"C", "o", "n", "n", "e", "c", "t", "e", "d", " ", "t", "o", " ", "h">>
OUT_failed_to_connect == <<"f", "a", "i", "l", "e", "d", " ", "t", "o", " ", "c", "o", "n", "n", "e", "c", "t">>
OUT_id_root == <<"u", "i", "d", "=", "0", "(", "r", "o", "o", "t", ")">>
OUT_id_shell == <<"u", "i", "d", "=", "2", "0", "0", "0", "(", "s", "h", "e", "l", "l", ")">>
OUT_su_not_found == <<"s", "u", ":", " ", "n", "o", "t", " ", "f", "o", "u", "n", "d">>

\* str.lower() on one character (the upper-case letters the outputs use)
LowerChar(c) ==
    CASE c = "C" -> "c"
      [] c = "U" -> "u"
      [] c = "W" -> "w"
      [] c = "S" -> "s"
      [] c = "B" -> "b"
      [] c = "I" -> "i"
      [] c = "F" -> "f"
      [] OTHER -> c

\* str.lower()
Lower(s) == [i \in 1..Len(s) |-> LowerChar(s[i])]

\* Python's  needle in hay  on strings
Contains(hay, needle) ==
    \E i \in 0..(Len(hay) - Len(needle)) :
        \A j \in 1..Len(needle) : hay[i + j] = needle[j]

\* Python's  a or b  on strings
StrOr(a, b) == IF a # EMPTY THEN a ELSE b

(***************************************************************************)
(* Request bodies.  method and ip_port arrive as raw JSON strings.         *)
(***************************************************************************)
DEFAULT_CASE_ID == "Case_001"
CaseIds == {"Case_001", "Case_002"}
\* body.get("case_id"): "" stands for a missing value
CaseInputs == {"", "Case_002"}
MethodInputs == {<<"w", "i", "f", "i">>, <<"U", "S", "B">>, <<"b", "t">>}
M_wifi == <<"w", "i", "f", "i">>
M_usb == <<"u", "s", "b">>
\* ip_port inputs: missing, blank, an address
IpPortInputs == {EMPTY, <<" ">>, <<"h", ":", "1">>}

\* str.strip() for the inputs above: leading and trailing blanks removed
RECURSIVE StripLeft(_)
StripLeft(s) == IF s # EMPTY /\ Head(s) = " " THEN StripLeft(Tail(s)) ELSE s
RECURSIVE StripRight(_)
StripRight(s) ==
    IF s # EMPTY /\ s[Len(s)] = " " THEN StripRight(SubSeq(s, 1, Len(s) - 1)) ELSE s
Strip(s) == StripRight(StripLeft(s))

\* body.get("wadecrypt_path", "wadecrypt"): the default, or a path where no
\* executable is
NoSuchTool == "/no/such/wadecrypt"
WadecryptPaths == {"wadecrypt", NoSuchTool}

\* body.get("case_id") or DEFAULT_CASE_ID
CaseOf(c) == IF c = "" THEN DEFAULT_CASE_ID ELSE c

(***************************************************************************)
(* Files.  A file is absent or holds a sequence of bytes.                  *)
(***************************************************************************)
Bytes == {1}
FileContents == UNION {[1..n -> Bytes] : n \in 0..MaxFileLen}
Absent == [exists |-> FALSE, bytes |-> <<>>]
File(b) == [exists |-> TRUE, bytes |-> b]

\* os.path.join(base_cases_dir, case_id, dir) / f"Cases/{case_id}/Evidence"
DirPath(case, dir) == <<"Cases", case, dir>>
\* os.path.join(dir_path, name)
JoinPath(dirpath, name) == Append(dirpath, name)

EvidenceNames == {"msgstore.db", "key", "msgstore.db.crypt14"}
LocalPaths ==
    {JoinPath(DirPath(c, "Evidence"), n) : c \in CaseIds, n \in EvidenceNames}
        \cup {JoinPath(DirPath(c, "Decrypted"), "msgstore_decrypted.db") : c \in CaseIds}

\* Paths on the device: the two protected sources and the two staging paths
android_db == "/sdcard/WhatsApp/Databases/msgstore.db.crypt14"
android_key == "/data/data/com.whatsapp/files/key"
\* f'/sdcard/{file["name"]}'
StagingPath(name) == IF name = "key" THEN "/sdcard/key" ELSE "/sdcard/msgstore.db"
DevicePaths == {android_db, android_key, "/sdcard/key", "/sdcard/msgstore.db"}

\* files_to_pull
files_to_pull ==
    << [name |-> "msgstore.db", path |-> android_db],
       [name |-> "key", path |-> android_key] >>

(***************************************************************************)
(* calculate_sha256: the digest is read in blocks of ChunkSize bytes until *)
(* a read returns nothing.  hashlib's SHA-256 is an external library; it   *)
(* is represented by a running checksum over the bytes fed to update().    *)
(***************************************************************************)
ChunkSize == 4096

Min(a, b) == IF a < b THEN a ELSE b

RECURSIVE Sha256Update(_, _)
Sha256Update(h, block) ==
    IF block = <<>> THEN h
    ELSE Sha256Update((h * 31 + Head(block) + 1) % 65521, Tail(block))

\* hashlib.sha256(data).hexdigest() of a whole byte string
Sha256(data) == Sha256Update(7, data)

RECURSIVE ReadBlocks(_, _)
ReadBlocks(h, rest) ==
    LET n == Min(ChunkSize, Len(rest))
        byte_block == SubSeq(rest, 1, n)
    IN  IF byte_block = <<>> THEN h
        ELSE ReadBlocks(Sha256Update(h, byte_block), SubSeq(rest, n + 1, Len(rest)))

calculate_sha256(bytes) == ReadBlocks(7, bytes)

\* f"{file_size / 1024:.2f} KB": hundredths of a KB, rounded half to even
SizeKB(file_size) ==
    LET q == (file_size * 100) \div 1024
        r == (file_size * 100) % 1024
    IN  IF r > 512 \/ (r = 512 /\ q % 2 = 1) THEN q + 1 ELSE q

(***************************************************************************)
(* State.                                                                  *)
(***************************************************************************)
VARIABLES
    op,        \* the operation in progress or last finished
    pc,        \* its position: the external call it is about to make
    req,       \* its parsed request body
    calls,     \* the external processes it has invoked, in order
    logs,      \* its logs list
    result,    \* its response (or the exception that left it)
    dev,       \* api_connect: the last adb_devices() result
    serial,    \* api_connect: the selected device; the response of a run that
               \* ended "connected" hands it to the client, until the next run
    su_run,    \* adb_root_check: outcome of the su attempt
    root,      \* api_connect: what adb_root_check returned in this run
    results,   \* the results list of the latest pull_whatsapp_evidence
    acq_case,  \* the case_id of the latest pull_whatsapp_evidence
    idx,       \* pull_whatsapp_evidence: index into files_to_pull
    fs,        \* local files under Cases/
    dirs,      \* local directories under Cases/
    android,   \* files on the device adb talks to
    runs,      \* operations started so far
    earlier,   \* history: the pull_whatsapp_evidence run before the latest one
    written,   \* history: device files rewritten since the latest run started
    users,     \* table users: row i has id i
    requests,  \* table account_requests: row i has id i
    tokens,    \* the JWTs generate_token has issued that have not expired
    reply      \* the answer to the latest request to an account or auth route

vars == <<op, pc, req, calls, logs, result, dev, serial, su_run, root, results, acq_case, idx,
          fs, dirs, android, runs, earlier, written, users, requests, tokens, reply>>

NoRequest ==
    [method |-> EMPTY, ip_port |-> EMPTY, case_id |-> DEFAULT_CASE_ID,
     wadecrypt_path |-> "wadecrypt", timeout_sec |-> 180]
NoResult ==
    [kind |-> "none", http |-> 0, ok |-> FALSE, step |-> "", logs |-> <<>>,
     extra |-> [none |-> TRUE]]
NoDev == [ok |-> FALSE, devices |-> <<>>, stdout |-> <<>>, stderr |-> EMPTY]
\* adb_root_check has not returned in this run
NoRoot == [ok |-> FALSE, rooted |-> FALSE, method |-> "none", stdout |-> EMPTY, stderr |-> EMPTY]

\* jsonify({"ok": ok, "step": step, "logs": lg, ...extra}), http
Respond(http, ok, step, lg, extra) ==
    [kind |-> "response", http |-> http, ok |-> ok, step |-> step, logs |-> lg,
     extra |-> extra]
\* an exception that no handler of the route catches
Raise(exc) ==
    [kind |-> "exception", http |-> 500, ok |-> FALSE, step |-> "", logs |-> <<>>,
     extra |-> [error |-> exc]]

\* outcome of one subprocess.run: it exited, or the call raised
Exit(code, out, err) == [kind |-> "exit", code |-> code, out |-> out, err |-> err]
Raised(exc) == [kind |-> exc, code |-> -1, out |-> <<>>, err |-> EMPTY]

Log(level, msg, arg) == [level |-> level, msg |-> msg, arg |-> arg]
\* one invoked external process: the command, its argument, how it ended and
\* what it printed
Call(cmd, arg, r) ==
    [cmd |-> cmd, arg |-> arg, kind |-> r.kind, code |-> r.code, out |-> r.out, err |-> r.err]

\* the serials of the devices that can be attached
KnownSerials == {"SER_A", "SER_B"}
\* the -s argument of an invocation: adb_root_check passes -s <serial>, the
\* command lists of pull_whatsapp_evidence and of the probes hold none
SerialArg(c) == IF c.cmd \in {"su_id", "id"} THEN c.arg ELSE "None"
\* the devices an adb command acts on while the devices att are attached:
\* the one named by -s or, without -s, the only device there is; adb refuses
\* to choose among several
RunsOn(c, att) ==
    IF SerialArg(c) # "None" THEN {SerialArg(c)} \cap att
    ELSE IF Cardinality(att) = 1 THEN att
    ELSE {}

(***************************************************************************)
(* Accounts (database.py, auth.py, the account routes of app.py).  A row   *)
(* of a table is a record and its id is its position in the table: ids are *)
(* handed out in order and no route deletes a row.                         *)
(***************************************************************************)
admin_email == "admin@whisper-wa.local"
\* create_default_admin, lines 34-42: the row init_database adds at start-up
DefaultAdmin == [email |-> admin_email, role |-> "admin", is_active |-> TRUE]
\* the e-mail addresses people ask for an account with
Emails == {"a@lab", "b@lab"}
\* a field missing from the JSON body
Missing == "<missing>"
\* ids a client can put into the path of a route
RequestIds == 1..MaxRequests
UserIds == 1..(MaxRequests + 1)

\* no request has reached an account or auth route yet; caller is the id of
\* the user the request was made as (0: nobody), target the row it named
NoReply == [route |-> "none", http |-> 0, ok |-> FALSE, caller |-> 0, target |-> 0]
Reply(route, http, ok, caller, target) ==
    [route |-> route, http |-> http, ok |-> ok, caller |-> caller, target |-> target]

\* User.query.filter_by(email=email).first(): the id of the row, 0 for None
get_user_by_email(us, email) ==
    IF \E i \in 1..Len(us) : us[i].email = email
    THEN CHOOSE i \in 1..Len(us) :
            /\ us[i].email = email
            /\ \A j \in 1..(i - 1) : us[j].email # email
    ELSE 0

\* generate_token: the payload names the user; exp lies 24 hours ahead
generate_token(user_id) == [valid |-> TRUE, user_id |-> user_id]
\* a token jwt.decode raises on: one not signed with SECRET_KEY or one whose
\* exp has passed; it names the admin
Invalid == [valid |-> FALSE, user_id |-> 1]
\* what a client can send as Authorization header: none, one without a
\* second word, or "Bearer <token>" with an invalid or an issued token
NoHeader == [form |-> "none", token |-> Invalid]
OneWord == [form |-> "one word", token |-> Invalid]
Bearer(t) == [form |-> "bearer", token |-> t]
Headers == {NoHeader, OneWord} \cup {Bearer(t) : t \in tokens \cup {Invalid}}

\* verify_token: the payload, or None (here 0) for an invalid or expired token
verify_token(t) == IF ~t.valid THEN 0 ELSE t.user_id
\* get_current_user: the id of the user the token names, 0 for None
get_current_user(us, t) ==
    LET user_id == verify_token(t)
    IN  IF user_id \in 1..Len(us) THEN user_id ELSE 0

\* login_required: http = 0 lets the request through to the route as user
login_required(us, h) ==
    IF h.form # "bearer" THEN [http |-> 401, user |-> 0]
    ELSE IF get_current_user(us, h.token) = 0 THEN [http |-> 401, user |-> 0]
    ELSE [http |-> 0, user |-> get_current_user(us, h.token)]
\* admin_required: as login_required, and the user's role must be admin
admin_required(us, h) ==
    IF h.form # "bearer" THEN [http |-> 401, user |-> 0]
    ELSE IF get_current_user(us, h.token) = 0 THEN [http |-> 401, user |-> 0]
    ELSE IF us[get_current_user(us, h.token)].role # "admin"
    THEN [http |-> 403, user |-> get_current_user(us, h.token)]
    ELSE [http |-> 0, user |-> get_current_user(us, h.token)]

\* authenticate_user: the id of the user, 0 when the login is refused
authenticate_user(us, email, password_ok) ==
    LET user == get_user_by_email(us, email)
    IN  IF user = 0 THEN 0
        ELSE IF ~us[user].is_active THEN 0
        ELSE IF ~password_ok THEN 0
        ELSE user

\* deactivate_user without the refusal of admin accounts
deactivate_user_AnyRole(us, user_id) ==
    IF user_id \notin 1..Len(us) THEN [ok |-> FALSE, users |-> us]
    ELSE [ok |-> TRUE, users |-> [us EXCEPT ![user_id].is_active = FALSE]]

\* deactivate_user: the value returned and the table afterwards
deactivate_user(us, user_id) ==
    IF user_id \notin 1..Len(us) THEN [ok |-> FALSE, users |-> us]
    ELSE IF us[user_id].role = "admin" THEN [ok |-> FALSE, users |-> us]
    ELSE [ok |-> TRUE, users |-> [us EXCEPT ![user_id].is_active = FALSE]]

\* reject_request: the value returned and the table afterwards
reject_request(rq, request_id, reviewed_by_id) ==
    IF request_id \notin 1..Len(rq) THEN [ok |-> FALSE, requests |-> rq]
    ELSE [ok |-> TRUE,
          requests |-> [rq EXCEPT ![request_id].status = "rejected",
                                  ![request_id].reviewed_by = reviewed_by_id]]

\* create_user_from_request: both tables after the commit
create_user_from_request(us, rq, request_id, approved_by_id) ==
    [users |-> Append(us, [email |-> rq[request_id].email, role |-> "user",
                           is_active |-> TRUE]),
     requests |-> [rq EXCEPT ![request_id].status = "approved",
                             ![request_id].reviewed_by = approved_by_id]]

(***************************************************************************)
(* Initial state: no operation has run.  The device holds, or lacks, the   *)
(* two protected files.  The Evidence directory of the default case is     *)
(* empty, or an operator has already placed an encrypted database (and a   *)
(* key) in it by hand.                                                     *)
(***************************************************************************)
DeviceFiles == {Absent} \cup {File(b) : b \in FileContents}
\* no run of pull_whatsapp_evidence came before the latest one
NoEarlierRun == [case |-> DEFAULT_CASE_ID, hashes |-> <<>>, changed |-> {}]

NoLocalFiles == [p \in LocalPaths |-> Absent]
PlacedCrypt ==
    [NoLocalFiles EXCEPT
        ![JoinPath(DirPath(DEFAULT_CASE_ID, "Evidence"), "msgstore.db.crypt14")] = File(<<1>>)]
PlacedBoth ==
    [PlacedCrypt EXCEPT
        ![JoinPath(DirPath(DEFAULT_CASE_ID, "Evidence"), "key")] = File(<<1>>)]

\* the program after start-up: no operation has run
InitProgram ==
    /\ op = "none"
    /\ pc = "idle"
    /\ req = NoRequest
    /\ calls = <<>>
    /\ logs = <<>>
    /\ result = NoResult
    /\ dev = NoDev
    /\ serial = "None"
    /\ su_run = Exit(0, EMPTY, EMPTY)
    /\ root = NoRoot
    /\ results = <<>>
    /\ acq_case = DEFAULT_CASE_ID
    /\ idx = 1
    /\ runs = 0
    /\ earlier = NoEarlierRun
    /\ written = {}
    /\ users = <<DefaultAdmin>>
    /\ requests = <<>>
    /\ tokens = {}
    /\ reply = NoReply

Init ==
    /\ InitProgram
    /\ \/ fs = NoLocalFiles /\ dirs = {}
       \/ fs \in {PlacedCrypt, PlacedBoth} /\ dirs = {DirPath(DEFAULT_CASE_ID, "Evidence")}
    /\ \E d \in DeviceFiles, k \in DeviceFiles :
          android = [p \in DevicePaths |->
                        IF p = android_db THEN d ELSE IF p = android_key THEN k ELSE Absent]

\* a file of the device's user, longer than any protected file of the model
UserFile == File([i \in 1..(MaxFileLen + 1) |-> 1])
\* the two paths in /sdcard the collector stages its copies at
StagingPaths == {StagingPath(files_to_pull[k].name) : k \in 1..Len(files_to_pull)}

\* the user of the device keeps files of their own named /sdcard/msgstore.db
\* and /sdcard/key
InitUserFile ==
    /\ InitProgram
    /\ fs = NoLocalFiles /\ dirs = {}
    /\ \E d \in DeviceFiles, k \in DeviceFiles :
          android = [p \in DevicePaths |->
                        IF p = android_db THEN d ELSE IF p = android_key THEN k ELSE UserFile]

\* an operation may start when none is in progress
CanStart == pc \in {"idle", "done"} /\ runs < MaxRuns

(***************************************************************************)
(* _run: subprocess.run(cmd, capture_output, text, timeout).  It returns   *)
(* (returncode, stdout, stderr), or raises TimeoutExpired, or raises       *)
(* FileNotFoundError when the adb binary is missing.                       *)
(***************************************************************************)
RunRaises == {Raised("TimeoutExpired"), Raised("FileNotFoundError")}

\* outputs of  adb devices : lines, each split into its tokens
HeaderLine == <<"List", "of", "devices", "attached">>
DevicesOutputs ==
    { <<HeaderLine>>,
      <<HeaderLine, <<"SER_A", "device">> >>,
      <<HeaderLine, <<>>, <<"SER_B", "device">>, <<"SER_A", "device">> >>,
      <<HeaderLine, <<"SER_A", "offline">>, <<"SER_B", "device">> >>,
      <<HeaderLine, <<"SER_A", "unauthorized">> >> }
DevicesRuns ==
    {Exit(0, o, EMPTY) : o \in DevicesOutputs}
        \cup {Exit(1, <<>>, OUT_failed_to_connect)} \cup RunRaises

ConnectRuns ==
    { Exit(0, OUT_connected_to, EMPTY),
      Exit(0, OUT_Connected_upper, EMPTY),
      Exit(0, EMPTY, OUT_already_connected_to),
      Exit(0, OUT_failed_to_connect, EMPTY),
      Exit(1, EMPTY, OUT_failed_to_connect),
      Exit(1, OUT_connected_to, EMPTY) } \cup RunRaises

SuIdRuns ==
    { Exit(0, OUT_id_root, EMPTY),
      Exit(0, EMPTY, EMPTY),
      Exit(1, OUT_id_root, EMPTY),
      Exit(1, EMPTY, OUT_su_not_found) } \cup RunRaises

IdRuns ==
    { Exit(0, OUT_id_root, EMPTY),
      Exit(0, OUT_id_shell, EMPTY),
      Exit(1, EMPTY, OUT_su_not_found) } \cup RunRaises

(***************************************************************************)
(* adb_devices, adb_connect_wifi, adb_root_check: what they return for the *)
(* outcome of the process they run.                                        *)
(***************************************************************************)
\* line.startswith("List of devices")
StartsWithHeader(line) ==
    Len(line) >= 3 /\ line[1] = "List" /\ line[2] = "of" /\ line[3] = "devices"

RECURSIVE ParseDevices(_)
ParseDevices(lines) ==
    IF lines = <<>> THEN <<>>
    ELSE LET line == Head(lines)
             rest == ParseDevices(Tail(lines))
         IN  IF line = <<>> \/ StartsWithHeader(line) THEN rest
             ELSE IF Len(line) >= 2 /\ line[2] = "device" THEN <<line[1]>> \o rest
             ELSE rest

\* adb_devices keeping every listed device, whatever its state
adb_devices_AnyState(r) ==
    IF r.code # 0
    THEN [ok |-> FALSE, error |-> "adb devices failed", stdout |-> r.out,
          stderr |-> r.err, devices |-> <<>>]
    ELSE LET listed == SelectSeq(r.out, LAMBDA l : Len(l) >= 2 /\ ~StartsWithHeader(l))
         IN  [ok |-> TRUE, devices |-> [i \in 1..Len(listed) |-> listed[i][1]],
              stdout |-> r.out, stderr |-> r.err]

adb_devices(r) ==
    IF r.code # 0
    THEN [ok |-> FALSE, error |-> "adb devices failed", stdout |-> r.out,
          stderr |-> r.err, devices |-> <<>>]
    ELSE [ok |-> TRUE, devices |-> ParseDevices(r.out), stdout |-> r.out,
          stderr |-> r.err]

\* adb_connect_wifi with the exit code left out of the success test
adb_connect_wifi_TextOnly(r) ==
    LET text == Lower(r.out \o <<" ">> \o r.err)
        ok == Contains(text, STR_connected) \/ Contains(text, STR_already_connected)
    IN  [ok |-> ok, returncode |-> r.code, stdout |-> r.out, stderr |-> r.err]

adb_connect_wifi(r) ==
    LET text == Lower(r.out \o <<" ">> \o r.err)
        ok == (r.code = 0)
                 /\ (Contains(text, STR_connected) \/ Contains(text, STR_already_connected))
    IN  [ok |-> ok, returncode |-> r.code, stdout |-> r.out, stderr |-> r.err]

\* the su attempt judged by its output alone, whatever its exit code
SuReportsRoot_TextOnly(r) == Contains(r.out, STR_uid0)

\* the su attempt of adb_root_check reports root
SuReportsRoot(r) == r.code = 0 /\ Contains(r.out, STR_uid0)
\* the fallback id attempt of adb_root_check reports root
IdReportsRoot(r2) == r2.code = 0 /\ Contains(r2.out, STR_uid0)

RootResult(rooted, method, out, err) ==
    [ok |-> TRUE, rooted |-> rooted, method |-> method, stdout |-> out, stderr |-> err]

(***************************************************************************)
(* POST /api/device/connect  (api_connect)                                 *)
(***************************************************************************)
\* the files, which api_connect never touches, and the history of the collector
FilesUnchanged == UNCHANGED <<fs, dirs, android, earlier, written>>
\* the forensic routes neither read nor write the account tables
AccountsUnchanged == UNCHANGED <<users, requests, tokens, reply>>
\* the locals of pull_whatsapp_evidence when it is not running
NoPull == results' = <<>> /\ idx' = 1
\* the locals of api_connect and adb_root_check when they are not running
NoRun == Exit(0, EMPTY, EMPTY)
NoConn == dev' = NoDev /\ serial' = "None" /\ su_run' = NoRun
\* a local variable is gone once the operation has returned
Local(p, v, gone) == IF p = "done" THEN gone ELSE v

\* lines 98-108: parse the body, start the log; the next thing is adb devices
ApiConnect ==
    \E m \in MethodInputs, ip \in IpPortInputs, c \in CaseInputs :
        /\ CanStart
        /\ op' = "connect"
        /\ req' = [NoRequest EXCEPT !.method = Lower(m), !.ip_port = Strip(ip),
                                    !.case_id = CaseOf(c)]
        /\ logs' = <<Log("INFO", "Checking ADB devices...", "")>>
        /\ calls' = <<>>
        /\ result' = NoResult
        /\ pc' = "devices"
        /\ runs' = runs + 1
        /\ NoConn
        /\ root' = NoRoot
        /\ NoPull
        /\ UNCHANGED acq_case
        /\ FilesUnchanged
        /\ AccountsUnchanged

\* api_connect picking the last enumerated device instead of the first
SelectDevice_Last(d, lg) ==
    LET s == IF d.devices # <<>> THEN d.devices[Len(d.devices)] ELSE "None"
    IN  [pc |-> "su_id", serial |-> s, result |-> NoResult,
         logs |-> lg \o <<Log("SUCCESS", "Device detected", s),
                          Log("INFO", "Checking root access...", "")>>]

\* lines 136-140: pick the first device, log, go on to the root check
SelectDevice(d, lg) ==
    LET s == IF d.devices # <<>> THEN d.devices[1] ELSE "None"
    IN  [pc |-> "su_id", serial |-> s, result |-> NoResult,
         logs |-> lg \o <<Log("SUCCESS", "Device detected", s),
                          Log("INFO", "Checking root access...", "")>>]

\* return jsonify(...), http
Stop(res, lg) == [pc |-> "done", serial |-> "None", result |-> res, logs |-> lg]
\* an exception leaves the route
Abort(exc) == [pc |-> "done", serial |-> "None", result |-> Raise(exc), logs |-> logs]

\* api_connect without the test of the device list on the usb path
AfterFirstProbe_UsbUnchecked(d) ==
    IF ~d.ok
    THEN Stop(Respond(400, FALSE, "devices", logs, [detail |-> d]), logs)
    ELSE IF req.method = M_wifi
    THEN IF req.ip_port = EMPTY
         THEN Stop(Respond(400, FALSE, "validate", logs,
                           [error |-> "ip_port is required for wifi"]), logs)
         ELSE [pc |-> "adb_connect", serial |-> "None", result |-> NoResult,
               logs |-> Append(logs, Log("INFO", "ADB connect to", "ip_port"))]
    ELSE IF req.method = M_usb
    THEN SelectDevice(d, logs)
    ELSE Stop(Respond(400, FALSE, "validate", logs,
                      [error |-> "method must be wifi or usb"]), logs)

\* api_connect without the test of dev["ok"] after the first adb devices
AfterFirstProbe_IgnoreFailed(d) ==
    IF req.method = M_wifi
    THEN IF req.ip_port = EMPTY
         THEN Stop(Respond(400, FALSE, "validate", logs,
                           [error |-> "ip_port is required for wifi"]), logs)
         ELSE [pc |-> "adb_connect", serial |-> "None", result |-> NoResult,
               logs |-> Append(logs, Log("INFO", "ADB connect to", "ip_port"))]
    ELSE IF req.method = M_usb
    THEN IF d.devices = <<>>
         THEN Stop(Respond(400, FALSE, "usb", logs,
                           [error |-> "No USB device found. Enable USB Debugging."]), logs)
         ELSE SelectDevice(d, logs)
    ELSE Stop(Respond(400, FALSE, "validate", logs,
                      [error |-> "method must be wifi or usb"]), logs)

\* lines 110-134: what api_connect does with the first device list
AfterFirstProbe(d) ==
    IF ~d.ok
    THEN Stop(Respond(400, FALSE, "devices", logs, [detail |-> d]), logs)
    ELSE IF req.method = M_wifi
    THEN IF req.ip_port = EMPTY
         THEN Stop(Respond(400, FALSE, "validate", logs,
                           [error |-> "ip_port is required for wifi"]), logs)
         ELSE [pc |-> "adb_connect", serial |-> "None", result |-> NoResult,
               logs |-> Append(logs, Log("INFO", "ADB connect to", "ip_port"))]
    ELSE IF req.method = M_usb
    THEN IF d.devices = <<>>
         THEN Stop(Respond(400, FALSE, "usb", logs,
                           [error |-> "No USB device found. Enable USB Debugging."]), logs)
         ELSE SelectDevice(d, logs)
    ELSE Stop(Respond(400, FALSE, "validate", logs,
                      [error |-> "method must be wifi or usb"]), logs)

\* line 109: dev = adb_devices(adb_path)
AdbDevicesFirst ==
    /\ op = "connect" /\ pc = "devices"
    /\ \E r \in DevicesRuns :
        LET d == adb_devices(r)
            nx == IF r.kind # "exit" THEN Abort(r.kind) ELSE AfterFirstProbe(d)
        IN  /\ calls' = Append(calls, Call("devices", "", r))
            /\ pc' = nx.pc /\ result' = nx.result /\ logs' = nx.logs
            /\ dev' = Local(nx.pc, d, NoDev)
            /\ serial' = nx.serial
    /\ UNCHANGED <<op, req, su_run, root, results, acq_case, idx, runs>>
    /\ FilesUnchanged
    /\ AccountsUnchanged

\* lines 119-121: what api_connect does with the result of adb_connect_wifi
AfterConnect(conn) ==
    IF ~conn.ok
    THEN Stop(Respond(400, FALSE, "adb_connect", logs, [detail |-> conn]), logs)
    ELSE [pc |-> "devices_after_connect", serial |-> "None", result |-> NoResult,
          logs |-> logs]

\* line 119: conn = adb_connect_wifi(ip_port)
AdbConnectWifi ==
    /\ op = "connect" /\ pc = "adb_connect"
    /\ \E r \in ConnectRuns :
        LET nx == IF r.kind # "exit" THEN Abort(r.kind)
                  ELSE AfterConnect(adb_connect_wifi(r))
        IN  /\ calls' = Append(calls, Call("connect", "", r))
            /\ pc' = nx.pc /\ result' = nx.result /\ logs' = nx.logs
            /\ dev' = Local(nx.pc, dev, NoDev)
    /\ UNCHANGED <<op, req, serial, su_run, root, results, acq_case, idx, runs>>
    /\ FilesUnchanged
    /\ AccountsUnchanged

\* api_connect without the test for an empty list after the connect
AfterSecondProbe_OkOnly(d) ==
    IF ~d.ok
    THEN Stop(Respond(400, FALSE, "devices_after_connect", logs, [detail |-> d]), logs)
    ELSE SelectDevice(d, logs)

\* lines 124-126: the device list after a successful connect
AfterSecondProbe(d) ==
    IF ~d.ok \/ d.devices = <<>>
    THEN Stop(Respond(400, FALSE, "devices_after_connect", logs, [detail |-> d]), logs)
    ELSE SelectDevice(d, logs)

\* line 124: dev = adb_devices(adb_path), again
AdbDevicesAfterConnect ==
    /\ op = "connect" /\ pc = "devices_after_connect"
    /\ \E r \in DevicesRuns :
        LET d == adb_devices(r)
            nx == IF r.kind # "exit" THEN Abort(r.kind) ELSE AfterSecondProbe(d)
        IN  /\ calls' = Append(calls, Call("devices", "", r))
            /\ pc' = nx.pc /\ result' = nx.result /\ logs' = nx.logs
            /\ dev' = Local(nx.pc, d, NoDev)
            /\ serial' = nx.serial
    /\ UNCHANGED <<op, req, su_run, root, results, acq_case, idx, runs>>
    /\ FilesUnchanged
    /\ AccountsUnchanged

\* api_connect with the rooted test left out: a device without root passes
AfterRootCheck_SoftFail(rc) ==
    IF ~rc.ok
    THEN Stop(Respond(400, FALSE, "root_check", logs, [detail |-> rc]), logs)
    ELSE LET lg == Append(logs, Log("SUCCESS", "Root access OK.", ""))
         IN  [Stop(Respond(200, TRUE, "connected", lg,
                           [case_id |-> req.case_id, serial |-> serial, rooted |-> TRUE]), lg)
                  EXCEPT !.serial = serial]

\* a run that ends "connected" returns the selected serial (line 155); any
\* other end leaves no selected device
\* lines 142-158: what api_connect does with the result of adb_root_check
AfterRootCheck(rc) ==
    IF ~rc.ok
    THEN Stop(Respond(400, FALSE, "root_check", logs, [detail |-> rc]), logs)
    ELSE IF ~rc.rooted
    THEN LET lg == Append(logs, Log("ERROR",
                        "Device is NOT rooted. Root required to continue.", ""))
         IN  Stop(Respond(403, FALSE, "root_check", lg, [rooted |-> FALSE]), lg)
    ELSE LET lg == Append(logs, Log("SUCCESS", "Root access OK.", ""))
         IN  [Stop(Respond(200, TRUE, "connected", lg,
                           [case_id |-> req.case_id, serial |-> serial, rooted |-> TRUE]), lg)
                  EXCEPT !.serial = serial]

\* adb_root_check, lines 69-71: adb [-s serial] shell su -c id
RootCheckSu ==
    /\ op = "connect" /\ pc = "su_id"
    /\ \E r \in SuIdRuns :
        LET rt == RootResult(TRUE, "su", r.out, r.err)
            nx == IF r.kind # "exit" THEN Abort(r.kind)
                  ELSE IF SuReportsRoot(r) THEN AfterRootCheck(rt)
                  ELSE [pc |-> "id", serial |-> serial, result |-> NoResult, logs |-> logs]
        IN  /\ calls' = Append(calls, Call("su_id", serial, r))
            /\ pc' = nx.pc /\ result' = nx.result /\ logs' = nx.logs
            /\ root' = IF r.kind = "exit" /\ SuReportsRoot(r) THEN rt ELSE NoRoot
            /\ su_run' = Local(nx.pc, r, NoRun)
            /\ serial' = nx.serial
    /\ dev' = NoDev
    /\ UNCHANGED <<op, req, results, acq_case, idx, runs>>
    /\ FilesUnchanged
    /\ AccountsUnchanged

\* the result of adb_root_check after its fallback attempt (lines 75-78)
RootAfterId(r, r2) ==
    IF IdReportsRoot(r2)
    THEN RootResult(TRUE, "id", r2.out, r2.err)
    ELSE RootResult(FALSE, "su/id", StrOr(r.out, r2.out), StrOr(r.err, r2.err))

\* adb_root_check, line 74: adb [-s serial] shell id
RootCheckId ==
    /\ op = "connect" /\ pc = "id"
    /\ \E r2 \in IdRuns :
        LET rt == RootAfterId(su_run, r2)
            nx == IF r2.kind # "exit" THEN Abort(r2.kind) ELSE AfterRootCheck(rt)
        IN  /\ calls' = Append(calls, Call("id", serial, r2))
            /\ pc' = nx.pc /\ result' = nx.result /\ logs' = nx.logs
            /\ root' = IF r2.kind = "exit" THEN rt ELSE NoRoot
            /\ serial' = nx.serial
    /\ dev' = NoDev /\ su_run' = NoRun
    /\ UNCHANGED <<op, req, results, acq_case, idx, runs>>
    /\ FilesUnchanged
    /\ AccountsUnchanged

(***************************************************************************)
(* pull_whatsapp_evidence (acquisition.py), called by the route            *)
(* POST /api/acquisition/run (app.py, run_acquisition) and by              *)
(* api_run_workflow (connected.py).  subprocess.run(..., check=True) has   *)
(* no timeout: it returns, raises CalledProcessError on a non-zero exit,   *)
(* raises FileNotFoundError when adb is missing, or waits for ever for a   *)
(* process that never exits.                                               *)
(***************************************************************************)
CheckedRuns == {Exit(0, EMPTY, EMPTY), Raised("CalledProcessError"), Raised("FileNotFoundError")}
\* the process never exits: without a timeout subprocess.run waits for ever
NeverExits == [kind |-> "never_exits", code |-> -1, out |-> <<>>, err |-> EMPTY]
CollectorRuns == CheckedRuns \cup {NeverExits}

\* what a run is remembered by: per entry the hash it reported, NoHash for a
\* Failed entry
NoHash == -1
SuccessHashes(res) ==
    [i \in 1..Len(res) |-> IF res[i].status = "Success" THEN res[i].hash ELSE NoHash]

\* pull_whatsapp_evidence without the os.makedirs of line 18
StartPull_NoMakedirs(case) ==
    /\ acq_case' = case
    /\ results' = <<>>
    /\ idx' = 1
    /\ pc' = "cp"
    /\ earlier' = [case |-> acq_case, hashes |-> SuccessHashes(results), changed |-> written]
    /\ written' = {}
    /\ UNCHANGED <<fs, android, dirs>>

\* lines 17-22 of pull_whatsapp_evidence: its state when the loop starts
StartPull(case) ==
    /\ acq_case' = case
    /\ dirs' = dirs \cup {DirPath(case, "Evidence")}
    /\ results' = <<>>
    /\ idx' = 1
    /\ pc' = "cp"
    /\ earlier' = [case |-> acq_case, hashes |-> SuccessHashes(results), changed |-> written]
    /\ written' = {}
    /\ UNCHANGED <<fs, android>>

\* app.py lines 519-523
RunAcquisition ==
    \E c \in CaseInputs :
        /\ CanStart
        /\ op' = "acquisition"
        /\ req' = [NoRequest EXCEPT !.case_id = CaseOf(c)]
        /\ logs' = <<>>
        /\ calls' = <<>>
        /\ result' = NoResult
        /\ runs' = runs + 1
        /\ StartPull(CaseOf(c))
        /\ UNCHANGED <<dev, serial, su_run, root>>
        /\ AccountsUnchanged

\* connected.py lines 172-181
ApiRunWorkflow ==
    \E c \in CaseInputs, w \in WadecryptPaths :
        /\ CanStart
        /\ op' = "workflow"
        /\ req' = [NoRequest EXCEPT !.case_id = CaseOf(c), !.wadecrypt_path = w]
        /\ logs' = <<Log("INFO", "Running acquisition for", CaseOf(c))>>
        /\ calls' = <<>>
        /\ result' = NoResult
        /\ runs' = runs + 1
        /\ StartPull(CaseOf(c))
        /\ UNCHANGED <<dev, serial, su_run, root>>
        /\ AccountsUnchanged

InPull == op \in {"acquisition", "workflow"}
\* the manifest entry of the current iteration and its local path (line 33)
CurFile == files_to_pull[idx]
local_file_path == JoinPath(DirPath(acq_case, "Evidence"), CurFile.name)

\* lines 56-62 and 64-69: the entry appended for the current file
SuccessEntry(file, local, path) ==
    [file |-> file.name, status |-> "Success",
     hash |-> calculate_sha256(local.bytes),
     size |-> SizeKB(Len(local.bytes)),
     path |-> path]
FailedEntry(file, cmd, r) ==
    [file |-> file.name, status |-> "Failed", error |-> [exc |-> r.kind, cmd |-> cmd]]

\* the for loop: on to the next manifest entry, or out of the loop
NextEntry ==
    /\ idx' = idx + 1
    /\ pc' = IF idx < Len(files_to_pull) THEN "cp" ELSE "acq_return"

\* the except clause around the loop instead of inside it: a failure ends the loop
ExceptRecord_Abort(cmd, r) ==
    /\ results' = Append(results, FailedEntry(CurFile, cmd, r))
    /\ idx' = idx + 1
    /\ pc' = "acq_return"

\* lines 64-69: the except clause records the failure and the loop goes on
ExceptRecord(cmd, r) ==
    /\ results' = Append(results, FailedEntry(CurFile, cmd, r))
    /\ NextEntry

\* subprocess.run does not return: the operation stays in the call
Blocked ==
    /\ pc' = "blocked"
    /\ UNCHANGED <<results, idx>>

\* adb pull appending to the local file instead of replacing it
PulledContent_Append(old, staged) == File(old.bytes \o staged.bytes)

\* adb pull writes the local file anew: its content is the pulled file's
PulledContent(old, staged) == staged

\* lines 37-40: adb shell su -c cp <remote> /sdcard/<name>
CopyToStaging ==
    /\ InPull /\ pc = "cp"
    /\ \E r \in CollectorRuns :
        /\ calls' = Append(calls, Call("cp", CurFile.name, r))
        /\ IF r.kind = "exit"
           THEN /\ android[CurFile.path].exists
                /\ android' = [android EXCEPT ![StagingPath(CurFile.name)] =
                                                 android[CurFile.path]]
                /\ pc' = "pull"
                /\ UNCHANGED <<results, idx>>
           ELSE IF r.kind = "never_exits"
           THEN /\ Blocked
                /\ UNCHANGED android
           ELSE /\ ExceptRecord("cp", r)
                /\ UNCHANGED android
    /\ UNCHANGED <<op, req, logs, result, acq_case, fs, dirs, runs>>
    /\ UNCHANGED <<dev, serial, su_run, root, earlier, written>>
    /\ AccountsUnchanged

\* lines 41-44: adb pull /sdcard/<name> <local_file_path>
PullStaged ==
    /\ InPull /\ pc = "pull"
    /\ \E r \in CollectorRuns :
        /\ calls' = Append(calls, Call("pull", CurFile.name, r))
        /\ IF r.kind = "exit"
           THEN /\ android[StagingPath(CurFile.name)].exists
                /\ fs' = [fs EXCEPT ![local_file_path] =
                                       PulledContent(fs[local_file_path],
                                                     android[StagingPath(CurFile.name)])]
                /\ pc' = "rm"
                /\ UNCHANGED <<results, idx>>
           ELSE IF r.kind = "never_exits"
           THEN /\ Blocked
                /\ UNCHANGED fs
           ELSE /\ ExceptRecord("pull", r)
                /\ UNCHANGED fs
    /\ UNCHANGED <<op, req, logs, result, acq_case, dirs, android, runs>>
    /\ UNCHANGED <<dev, serial, su_run, root, earlier, written>>
    /\ AccountsUnchanged

\* lines 47-62: adb shell rm /sdcard/<name>, then hash and size of the local file
RemoveStaging ==
    /\ InPull /\ pc = "rm"
    /\ \E r \in CollectorRuns :
        /\ calls' = Append(calls, Call("rm", CurFile.name, r))
        /\ IF r.kind = "exit"
           THEN /\ android[StagingPath(CurFile.name)].exists
                /\ android' = [android EXCEPT ![StagingPath(CurFile.name)] = Absent]
                /\ results' = Append(results,
                                 SuccessEntry(CurFile, fs[local_file_path], local_file_path))
                /\ NextEntry
           ELSE IF r.kind = "never_exits"
           THEN /\ Blocked
                /\ UNCHANGED android
           ELSE /\ ExceptRecord("rm", r)
                /\ UNCHANGED android
    /\ UNCHANGED <<op, req, logs, result, acq_case, fs, dirs, runs>>
    /\ UNCHANGED <<dev, serial, su_run, root, earlier, written>>
    /\ AccountsUnchanged

(***************************************************************************)
(* decrypt_whatsapp_db (decrypt.py)                                        *)
(***************************************************************************)
key_path(case) == JoinPath(DirPath(case, "Evidence"), "key")
crypt_path(case) == JoinPath(DirPath(case, "Evidence"), "msgstore.db.crypt14")
out_db_path(case) == JoinPath(DirPath(case, "Decrypted"), "msgstore_decrypted.db")

\* decrypt_whatsapp_db without the existence check of the key file
DecryptPre_CryptOnly(case) ==
    IF ~fs[crypt_path(case)].exists
    THEN [go |-> FALSE,
          dec |-> [ok |-> FALSE, step |-> "decrypt", error |-> "Missing crypt DB",
                   path |-> crypt_path(case)]]
    ELSE [go |-> TRUE, dec |-> [ok |-> FALSE, step |-> "decrypt", error |-> "", path |-> <<>>]]

\* lines 38-42: the two existence checks; go = the tool is to be invoked
DecryptPre(case) ==
    IF ~fs[key_path(case)].exists
    THEN [go |-> FALSE,
          dec |-> [ok |-> FALSE, step |-> "decrypt", error |-> "Missing key file",
                   path |-> key_path(case)]]
    ELSE IF ~fs[crypt_path(case)].exists
    THEN [go |-> FALSE,
          dec |-> [ok |-> FALSE, step |-> "decrypt", error |-> "Missing crypt DB",
                   path |-> crypt_path(case)]]
    ELSE [go |-> TRUE, dec |-> [ok |-> FALSE, step |-> "decrypt", error |-> "", path |-> <<>>]]

\* what wadecrypt leaves at the output path: nothing, an empty file, a database
ToolWrites == {"nothing", "empty", "database"}
\* one run of the tool: an outcome of subprocess.run and what it wrote
ToolRun(r, w) ==
    [kind |-> r.kind, code |-> r.code, out |-> r.out, err |-> r.err, writes |-> w]
WadecryptRuns ==
    {ToolRun(Exit(0, EMPTY, EMPTY), w) : w \in ToolWrites}
        \cup {ToolRun(Exit(1, EMPTY, EMPTY), "nothing"),
              ToolRun(Raised("FileNotFoundError"), "nothing"),
              ToolRun(Raised("TimeoutExpired"), "nothing")}
\* the runs possible for a given wadecrypt_path: where no executable is,
\* subprocess.run raises FileNotFoundError
WadecryptRunsFor(path) ==
    IF path = NoSuchTool THEN {ToolRun(Raised("FileNotFoundError"), "nothing")}
    ELSE WadecryptRuns

\* the invocation of the tool as calls records it, with what it wrote
ToolCall(r) ==
    [cmd |-> "wadecrypt", arg |-> "", kind |-> r.kind, code |-> r.code, out |-> r.out,
     err |-> r.err, writes |-> r.writes]

\* the output path after the tool ran
Written(old, w, crypt) ==
    IF w = "nothing" THEN old
    ELSE IF w = "empty" THEN File(<<>>)
    ELSE File(Append(crypt.bytes, 1))

\* decrypt_whatsapp_db without the test of the output file (line 67)
DecryptResult_ExitCodeOnly(r, out, case, timeout_sec) ==
    IF r.kind = "FileNotFoundError"
    THEN [ok |-> FALSE, step |-> "decrypt", error |-> "wadecrypt not found", path |-> <<>>]
    ELSE IF r.kind = "TimeoutExpired"
    THEN [ok |-> FALSE, step |-> "decrypt", error |-> "Timeout after", path |-> <<>>,
          timeout_sec |-> timeout_sec]
    ELSE IF r.code # 0
    THEN [ok |-> FALSE, step |-> "decrypt", error |-> "wadecrypt failed", path |-> <<>>,
          returncode |-> r.code]
    ELSE [ok |-> TRUE, step |-> "decrypt", case_id |-> case,
          decrypted_db |-> out_db_path(case)]

\* lines 57-93: the value decrypt_whatsapp_db returns after the tool ran,
\* out being the output path as the tool left it
DecryptResult(r, out, case, timeout_sec) ==
    IF r.kind = "FileNotFoundError"
    THEN [ok |-> FALSE, step |-> "decrypt", error |-> "wadecrypt not found", path |-> <<>>]
    ELSE IF r.kind = "TimeoutExpired"
    THEN [ok |-> FALSE, step |-> "decrypt", error |-> "Timeout after", path |-> <<>>,
          timeout_sec |-> timeout_sec]
    ELSE IF r.code # 0
    THEN [ok |-> FALSE, step |-> "decrypt", error |-> "wadecrypt failed", path |-> <<>>,
          returncode |-> r.code]
    ELSE IF ~out.exists \/ Len(out.bytes) = 0
    THEN [ok |-> FALSE, step |-> "decrypt", error |-> "Decrypted DB not created or empty",
          path |-> <<>>]
    ELSE [ok |-> TRUE, step |-> "decrypt", case_id |-> case,
          decrypted_db |-> out_db_path(case)]

\* the value a direct call of decrypt_whatsapp_db returns
Return(dec) ==
    [kind |-> "return", http |-> 0, ok |-> dec.ok, step |-> dec.step, logs |-> <<>>,
     extra |-> dec]

\* connected.py lines 190-203: api_run_workflow with the result of decrypt
AfterDecrypt(dec, lg, acq) ==
    IF ~dec.ok
    THEN LET lg2 == Append(lg, Log("ERROR", "Decryption failed.", ""))
         IN  [result |-> Respond(400, FALSE, "decrypt", lg2, [detail |-> dec]), logs |-> lg2]
    ELSE LET lg2 == Append(lg, Log("SUCCESS", "Decryption completed.", ""))
         IN  [result |-> Respond(200, TRUE, "done", lg2,
                                 [case_id |-> req.case_id, acquisition |-> acq,
                                  decrypt |-> dec]),
              logs |-> lg2]

\* a direct call decrypt_whatsapp_db(case_id, wadecrypt_path=...)
DecryptWhatsappDb ==
    \E c \in CaseInputs, w \in WadecryptPaths :
        LET case == CaseOf(c)
            pre == DecryptPre(case)
        IN  /\ CanStart
            /\ op' = "decrypt"
            /\ req' = [NoRequest EXCEPT !.case_id = case, !.wadecrypt_path = w]
            /\ logs' = <<>>
            /\ calls' = <<>>
            /\ runs' = runs + 1
            /\ IF pre.go
               THEN /\ dirs' = dirs \cup {DirPath(case, "Decrypted")}
                    /\ pc' = "wadecrypt"
                    /\ result' = NoResult
               ELSE /\ pc' = "done"
                    /\ result' = Return(pre.dec)
                    /\ UNCHANGED dirs
            /\ UNCHANGED <<results, acq_case, idx, fs, android>>
            /\ UNCHANGED <<dev, serial, su_run, root, earlier, written>>
            /\ AccountsUnchanged

\* the value pull_whatsapp_evidence returns: a Python list
PyList(items) == [type |-> "list", items |-> items]
\* isinstance(acq, dict) and acq.get("ok") is True
AcqOk(acq) == acq.type = "dict" /\ acq.ok = TRUE

\* pull_whatsapp_evidence returns (line 71) and its caller goes on:
\* app.py lines 525-528, or connected.py lines 182-189 up to the decrypt tool
PullEvidenceReturn ==
    /\ InPull /\ pc = "acq_return"
    /\ LET acq == PyList(results)
           pre == DecryptPre(req.case_id)
           lgFail == Append(logs, Log("ERROR", "Acquisition failed.", ""))
           lgOk == logs \o <<Log("SUCCESS", "Acquisition completed.", ""),
                             Log("INFO", "Decrypting WhatsApp database...", "")>>
       IN  IF op = "acquisition"
           THEN /\ result' = Respond(200, TRUE, "", <<>>, [success |-> TRUE, results |-> results])
                /\ pc' = "done"
                /\ UNCHANGED <<logs, dirs>>
           ELSE IF ~AcqOk(acq)
           THEN /\ result' = Respond(400, FALSE, "acquisition", lgFail, [detail |-> acq])
                /\ logs' = lgFail
                /\ pc' = "done"
                /\ UNCHANGED dirs
           ELSE IF pre.go
           THEN /\ result' = NoResult
                /\ logs' = lgOk
                /\ pc' = "wadecrypt"
                /\ dirs' = dirs \cup {DirPath(req.case_id, "Decrypted")}
           ELSE /\ result' = AfterDecrypt(pre.dec, lgOk, acq).result
                /\ logs' = AfterDecrypt(pre.dec, lgOk, acq).logs
                /\ pc' = "done"
                /\ UNCHANGED dirs
    /\ UNCHANGED <<op, req, calls, results, acq_case, idx, fs, android, runs>>
    /\ UNCHANGED <<dev, serial, su_run, root, earlier, written>>
    /\ AccountsUnchanged

\* decrypt.py lines 46-55: subprocess.run([wadecrypt_path, key, crypt, out])
RunWadecrypt ==
    /\ op \in {"decrypt", "workflow"} /\ pc = "wadecrypt"
    /\ \E r \in WadecryptRunsFor(req.wadecrypt_path) :
        LET case == req.case_id
            out == Written(fs[out_db_path(case)], r.writes, fs[crypt_path(case)])
            dec == DecryptResult(r, out, case, req.timeout_sec)
        IN  /\ calls' = Append(calls, ToolCall(r))
            /\ fs' = [fs EXCEPT ![out_db_path(case)] = out]
            /\ IF op = "workflow"
               THEN /\ result' = AfterDecrypt(dec, logs, PyList(results)).result
                    /\ logs' = AfterDecrypt(dec, logs, PyList(results)).logs
               ELSE /\ result' = Return(dec)
                    /\ UNCHANGED logs
    /\ pc' = "done"
    /\ UNCHANGED <<op, req, results, acq_case, idx, dirs, android, runs>>
    /\ UNCHANGED <<dev, serial, su_run, root, earlier, written>>
    /\ AccountsUnchanged

(***************************************************************************)
(* The auth and admin routes of app.py.  Each is one database transaction *)
(* and one response.                                                       *)
(***************************************************************************)
\* the account routes neither read nor write what the forensic routes keep
ForensicUnchanged ==
    UNCHANGED <<op, pc, req, calls, logs, result, dev, serial, su_run, root, results,
                acq_case, idx, fs, dirs, android, runs, earlier, written>>

\* POST /api/auth/login, app.py lines 102-131
Login ==
    \E email \in Emails \cup {admin_email, Missing}, password_ok \in BOOLEAN :
        LET user == authenticate_user(users, email, password_ok)
        IN  /\ IF email = Missing
               THEN /\ reply' = Reply("login", 400, FALSE, 0, 0)
                    /\ UNCHANGED tokens
               ELSE IF user = 0
               THEN /\ reply' = Reply("login", 401, FALSE, 0, 0)
                    /\ UNCHANGED tokens
               ELSE /\ reply' = Reply("login", 200, TRUE, user, 0)
                    /\ tokens' = tokens \cup {generate_token(user)}
            /\ UNCHANGED <<users, requests>>
            /\ ForensicUnchanged

\* GET /api/auth/verify, app.py lines 140-158, behind login_required
VerifyToken ==
    \E h \in Headers :
        LET gate == login_required(users, h)
        IN  /\ reply' = IF gate.http # 0
                        THEN Reply("verify", gate.http, FALSE, gate.user, 0)
                        ELSE Reply("verify", 200, TRUE, gate.user, 0)
            /\ UNCHANGED <<users, requests, tokens>>
            /\ ForensicUnchanged

\* POST /api/auth/register-request, app.py lines 182-231
RegisterRequest ==
    \E email \in Emails \cup {admin_email, Missing} :
        LET refused == \/ email = Missing
                       \/ get_user_by_email(users, email) # 0
                       \/ \E i \in 1..Len(requests) :
                             requests[i].email = email /\ requests[i].status = "pending"
        IN  /\ IF refused
               THEN /\ reply' = Reply("register", 400, FALSE, 0, 0)
                    /\ UNCHANGED requests
               ELSE /\ Len(requests) < MaxRequests
                    /\ requests' = Append(requests, [email |-> email, status |-> "pending",
                                                     reviewed_by |-> 0])
                    /\ reply' = Reply("register", 201, TRUE, 0, Len(requests) + 1)
            /\ UNCHANGED <<users, tokens>>
            /\ ForensicUnchanged

\* the GET routes behind admin_required: /api/admin/stats, /requests,
\* /requests/pending and /users (app.py lines 245-339 and 439-464)
AdminGet ==
    \E h \in Headers :
        LET gate == admin_required(users, h)
        IN  /\ reply' = IF gate.http # 0
                        THEN Reply("admin_get", gate.http, FALSE, gate.user, 0)
                        ELSE Reply("admin_get", 200, TRUE, gate.user, 0)
            /\ UNCHANGED <<users, requests, tokens>>
            /\ ForensicUnchanged

\* POST /api/admin/approve/<request_id>, app.py lines 342-398
ApproveRequest ==
    \E h \in Headers, request_id \in RequestIds :
        LET gate == admin_required(users, h)
            db == create_user_from_request(users, requests, request_id, gate.user)
        IN  /\ IF gate.http # 0
               THEN /\ reply' = Reply("approve", gate.http, FALSE, gate.user, request_id)
                    /\ UNCHANGED <<users, requests>>
               ELSE IF request_id \notin 1..Len(requests)
               THEN /\ reply' = Reply("approve", 404, FALSE, gate.user, request_id)
                    /\ UNCHANGED <<users, requests>>
               ELSE IF requests[request_id].status # "pending"
               THEN /\ reply' = Reply("approve", 400, FALSE, gate.user, request_id)
                    /\ UNCHANGED <<users, requests>>
               ELSE /\ users' = db.users
                    /\ requests' = db.requests
                    /\ reply' = Reply("approve", 200, TRUE, gate.user, request_id)
            /\ UNCHANGED tokens
            /\ ForensicUnchanged

\* POST /api/admin/reject/<request_id>, app.py lines 401-432
RejectAccountRequest ==
    \E h \in Headers, request_id \in RequestIds :
        LET gate == admin_required(users, h)
            done == reject_request(requests, request_id, gate.user)
        IN  /\ IF gate.http # 0
               THEN /\ reply' = Reply("reject", gate.http, FALSE, gate.user, request_id)
                    /\ UNCHANGED requests
               ELSE IF ~done.ok
               THEN /\ reply' = Reply("reject", 404, FALSE, gate.user, request_id)
                    /\ UNCHANGED requests
               ELSE /\ requests' = done.requests
                    /\ reply' = Reply("reject", 200, TRUE, gate.user, request_id)
            /\ UNCHANGED <<users, tokens>>
            /\ ForensicUnchanged

\* DELETE /api/admin/users/<user_id>, app.py lines 467-505
RevokeUser ==
    \E h \in Headers, user_id \in UserIds :
        LET gate == admin_required(users, h)
            done == deactivate_user(users, user_id)
        IN  /\ IF gate.http # 0
               THEN /\ reply' = Reply("revoke", gate.http, FALSE, gate.user, user_id)
                    /\ UNCHANGED users
               ELSE IF user_id = gate.user
               THEN /\ reply' = Reply("revoke", 400, FALSE, gate.user, user_id)
                    /\ UNCHANGED users
               ELSE IF ~done.ok
               THEN /\ reply' = Reply("revoke", 404, FALSE, gate.user, user_id)
                    /\ UNCHANGED users
               ELSE /\ users' = done.users
                    /\ reply' = Reply("revoke", 200, TRUE, gate.user, user_id)
            /\ UNCHANGED <<requests, tokens>>
            /\ ForensicUnchanged

\* a call deactivate_user(user_id) from outside the revoke route
DeactivateUser ==
    \E user_id \in UserIds :
        LET done == deactivate_user(users, user_id)
        IN  /\ users' = done.users
            /\ reply' = Reply("deactivate_user", 0, done.ok, 0, user_id)
            /\ UNCHANGED <<requests, tokens>>
            /\ ForensicUnchanged

\* 24 hours have passed since a token was issued (TOKEN_EXPIRATION_HOURS)
TokenExpires ==
    \E t \in tokens :
        /\ tokens' = tokens \ {t}
        /\ UNCHANGED <<users, requests, reply>>
        /\ ForensicUnchanged

(***************************************************************************)
(* The device is not the program's: after one operation and before the    *)
(* next WhatsApp may rewrite its database and its key file.                *)
(***************************************************************************)
DeviceWrite ==
    \E p \in {android_db, android_key}, b \in FileContents :
        /\ CanStart /\ runs > 0
        /\ Cardinality(written) < MaxRewritten
        /\ p \notin written
        /\ File(b) # android[p]
        /\ android' = [android EXCEPT ![p] = File(b)]
        /\ written' = written \cup {p}
        /\ earlier' = [earlier EXCEPT !.changed = @ \cup {p}]
        /\ UNCHANGED <<op, pc, req, calls, logs, result, dev, serial, su_run, root, results,
                       acq_case, idx, fs, dirs, runs>>
        /\ AccountsUnchanged

Next ==
    \/ ApiConnect
    \/ AdbDevicesFirst
    \/ AdbConnectWifi
    \/ AdbDevicesAfterConnect
    \/ RootCheckSu
    \/ RootCheckId
    \/ RunAcquisition
    \/ ApiRunWorkflow
    \/ CopyToStaging
    \/ PullStaged
    \/ RemoveStaging
    \/ PullEvidenceReturn
    \/ DecryptWhatsappDb
    \/ RunWadecrypt

Spec == Init /\ [][Next]_vars

\* the connect route alone: every run is a run of api_connect
NextConnect ==
    \/ ApiConnect
    \/ AdbDevicesFirst
    \/ AdbConnectWifi
    \/ AdbDevicesAfterConnect
    \/ RootCheckSu
    \/ RootCheckId

SpecConnect == Init /\ [][NextConnect]_vars

\* the collector, the workflow route and decrypt, without the connect route
NextPipeline ==
    \/ RunAcquisition
    \/ ApiRunWorkflow
    \/ CopyToStaging
    \/ PullStaged
    \/ RemoveStaging
    \/ PullEvidenceReturn
    \/ DecryptWhatsappDb
    \/ RunWadecrypt

SpecPipeline == Init /\ [][NextPipeline]_vars

\* the acquisition route run again and again on a device that changes
NextRerun ==
    \/ RunAcquisition
    \/ CopyToStaging
    \/ PullStaged
    \/ RemoveStaging
    \/ PullEvidenceReturn
    \/ DeviceWrite

\* no case has been worked on yet and the device holds both files
InitFresh ==
    /\ Init
    /\ fs = NoLocalFiles
    /\ android[android_db].exists /\ android[android_key].exists

SpecRerun == InitFresh /\ [][NextRerun]_vars

\* the acquisition route on a device that holds user files at the staging paths
NextCollector ==
    \/ RunAcquisition
    \/ CopyToStaging
    \/ PullStaged
    \/ RemoveStaging
    \/ PullEvidenceReturn

SpecUserFile == InitUserFile /\ [][NextCollector]_vars

\* the auth and admin routes, on the database init_database leaves
NextAccounts ==
    \/ Login
    \/ VerifyToken
    \/ RegisterRequest
    \/ AdminGet
    \/ ApproveRequest
    \/ RejectAccountRequest
    \/ RevokeUser
    \/ DeactivateUser
    \/ TokenExpires

\* no forensic operation has run and no device file is involved
InitAccounts ==
    /\ InitProgram
    /\ fs = NoLocalFiles /\ dirs = {}
    /\ android = [p \in DevicePaths |-> Absent]

SpecAccounts == InitAccounts /\ [][NextAccounts]_vars

\* a step of an operation in progress: the interpreter goes on with the
\* handler for as long as the call it is in returns
Proceed ==
    \/ CopyToStaging
    \/ PullStaged
    \/ RemoveStaging
    \/ PullEvidenceReturn
    \/ RunWadecrypt

SpecPipelineFair == SpecPipeline /\ WF_vars(Proceed)

(***************************************************************************)
(* Properties.                                                             *)
(***************************************************************************)
\* positions in calls of the invocations of the given commands
CallsOf(cmds) == {i \in 1..Len(calls) : calls[i].cmd \in cmds}
\* positions in calls of the invocations made for one manifest entry
CallsFor(name) == {i \in 1..Len(calls) : calls[i].cmd \in {"cp", "pull", "rm"} /\ calls[i].arg = name}
\* the invocation of cmd for the manifest entry name exited with code 0
StepOk(cmd, name) ==
    \E i \in CallsFor(name) : calls[i].cmd = cmd /\ calls[i].kind = "exit" /\ calls[i].code = 0
\* the invocation of cmd for the manifest entry name ended in exception exc
StepRaised(cmd, name, exc) ==
    \E i \in CallsFor(name) : calls[i].cmd = cmd /\ calls[i].kind = exc
\* pull_whatsapp_evidence is returning to its caller
CollectorReturns == InPull /\ pc = "acq_return"
BothSuccess ==
    Len(results) = 2 /\ \A i \in 1..2 : results[i].status = "Success"

\* C1: a run of api_connect with method wifi and an empty or missing address
\* invokes no external process at any point and ends with a failure at step
\* "validate".
C1_ValidateBeforeAnyProcess ==
    (op = "connect" /\ req.method = M_wifi /\ req.ip_port = EMPTY)
        => /\ calls = <<>>
           /\ pc = "done" => (result.kind = "response" /\ ~result.ok
                                 /\ result.step = "validate")

\* C2: a run of api_run_workflow in which every invoked command exits 0, both
\* manifest files were copied, pulled and cleaned up with non-zero size and
\* the decrypt tool, if run, left a non-empty output, ends with ok = true,
\* step "done", two Success entries and the decrypted path.
C2_Scenario1Done ==
    (/\ op = "workflow" /\ pc = "done"
     /\ \A i \in 1..Len(calls) : calls[i].kind = "exit" /\ calls[i].code = 0
     /\ \A n \in {"msgstore.db", "key"} :
           /\ StepOk("cp", n) /\ StepOk("pull", n) /\ StepOk("rm", n)
           /\ Len(fs[JoinPath(DirPath(acq_case, "Evidence"), n)].bytes) > 0
     /\ CallsOf({"wadecrypt"}) # {}
           => Len(fs[out_db_path(req.case_id)].bytes) > 0)
        => /\ result.kind = "response" /\ result.ok /\ result.step = "done"
           /\ BothSuccess
           /\ result.extra.decrypt.decrypted_db = out_db_path(req.case_id)

\* C3: when adb_root_check reports rooted = false, the run of api_connect ends
\* with a failure at step "root_check" and has invoked no collector command
\* (cp, pull, rm).
C3_NotRootedFailsAtRootCheck ==
    (op = "connect" /\ root.ok /\ ~root.rooted)
        => /\ pc = "done"
           /\ result.kind = "response" /\ ~result.ok /\ result.step = "root_check"
           /\ CallsOf({"cp", "pull", "rm"}) = {}

C3_Witness ==
    /\ op = "connect" /\ pc = "done"
    /\ root.ok /\ ~root.rooted
    /\ CallsOf({"su_id"}) # {} /\ CallsOf({"id"}) # {}
    /\ result.step = "root_check" /\ result.http = 403

\* C4: when the collector returns, every Success entry's local file exists, is
\* larger than 0 bytes, and the recorded hash is the SHA-256 of its bytes.
C4_SuccessMeansNonEmptyHashed ==
    CollectorReturns =>
        \A i \in 1..Len(results) :
            results[i].status = "Success" =>
                LET f == fs[results[i].path]
                IN  f.exists /\ Len(f.bytes) > 0 /\ results[i].hash = Sha256(f.bytes)

\* C5: for every combination of outcomes of cp, pull and rm the collector
\* returns one result per manifest entry, in manifest order; an entry is
\* Failed exactly when one of its own steps failed, it then carries that
\* step's error, and the steps of the following entry are attempted.
C5_OneResultPerEntry ==
    /\ (InPull /\ pc \in {"cp", "pull", "rm"}) => Len(results) = idx - 1
    /\ (InPull /\ pc \in {"acq_return", "done", "wadecrypt"}) =>
          /\ Len(results) = Len(files_to_pull)
          /\ \A i \in 1..Len(files_to_pull) :
                LET name == files_to_pull[i].name
                    failed == {j \in CallsFor(name) : calls[j].kind # "exit"}
                IN  /\ results[i].file = name
                    /\ results[i].status \in {"Success", "Failed"}
                    /\ (results[i].status = "Failed") <=> (failed # {})
                    /\ results[i].status = "Failed" =>
                          \E j \in failed :
                              results[i].error = [exc |-> calls[j].kind, cmd |-> calls[j].cmd]
                    /\ \E j \in CallsFor(name) : calls[j].cmd = "cp"

C5_Witness ==
    /\ CollectorReturns
    /\ Len(results) = 2
    /\ results[1].status = "Failed" /\ results[2].status = "Success"
    /\ StepRaised("cp", "msgstore.db", "FileNotFoundError")

\* C6: an entry whose remote copy and pull both succeeded is reported Success
\* with its hash and size, also when the staging cleanup (rm) failed.
C6_CleanupFailureKeepsSuccess ==
    CollectorReturns =>
        \A i \in 1..Len(results) :
            (StepOk("cp", results[i].file) /\ StepOk("pull", results[i].file))
                => /\ results[i].status = "Success"
                   /\ results[i].hash = Sha256(fs[results[i].path].bytes)

\* the latest acquisition ran scenario 3: the key's pull exited non-zero, the
\* encrypted database was pulled
KeyPullFailedDbPulled ==
    /\ Len(results) = 2
    /\ results[2].status = "Failed"
    /\ results[2].error = [exc |-> "CalledProcessError", cmd |-> "pull"]
    /\ \/ results[1].status = "Success"
       \/ results[1].status = "Failed" /\ results[1].error.cmd = "rm"

\* C7: when the key's pull exits non-zero and the encrypted database's pull
\* succeeds, the acquisition reports one Failed and one Success entry, and a
\* following decrypt of the same case returns ok = false with a missing-input
\* error naming the key path, without invoking the decrypt tool.
C7_Scenario3 ==
    /\ (CollectorReturns /\ StepRaised("pull", "key", "CalledProcessError")
            /\ StepOk("pull", "msgstore.db"))
          => /\ Len(results) = 2
             /\ results[1].status = "Success" /\ results[2].status = "Failed"
    /\ (op = "decrypt" /\ pc = "done" /\ req.case_id = acq_case /\ KeyPullFailedDbPulled)
          => /\ ~result.ok
             /\ result.extra.error = "Missing key file"
             /\ result.extra.path = key_path(req.case_id)
             /\ calls = <<>>

\* C8: after an acquisition with both entries Success the evidence lies at
\* Cases/<caseId>/Evidence/msgstore.db.crypt14 and Cases/<caseId>/Evidence/key,
\* the two paths decrypt checks, and decrypt of that case does not return a
\* missing-input error.
C8_EvidenceWhereDecryptLooks ==
    /\ (CollectorReturns /\ BothSuccess)
          => /\ {results[1].path, results[2].path} = {crypt_path(acq_case), key_path(acq_case)}
             /\ fs[crypt_path(acq_case)].exists /\ fs[key_path(acq_case)].exists
    /\ (op = "decrypt" /\ pc = "done" /\ req.case_id = acq_case /\ BothSuccess)
          => \/ result.ok
             \/ result.extra.error \notin {"Missing key file", "Missing crypt DB"}

\* C9: api_run_workflow reaches the decrypt stage exactly when both entries of
\* the acquisition are Success; otherwise it ends with ok = false at step
\* "acquisition" and the decrypt tool is not invoked.
C9_DecryptIffBothSuccess ==
    (op = "workflow" /\ pc \in {"wadecrypt", "done"}) =>
        LET reached == \/ pc = "wadecrypt"
                       \/ pc = "done" /\ result.step \in {"decrypt", "done"}
        IN  /\ reached <=> BothSuccess
            /\ ~BothSuccess => /\ pc = "done"
                               /\ ~result.ok /\ result.step = "acquisition"
                               /\ CallsOf({"wadecrypt"}) = {}

\* C10: for method wifi with a non-empty address, when adb connect exits with
\* code 1 the run ends with ok = false at step "adb_connect" and neither root
\* sub-check (su -c id, id) is invoked.
C10_ConnectExitOneStops ==
    (/\ op = "connect" /\ req.method = M_wifi /\ req.ip_port # EMPTY
     /\ \E i \in CallsOf({"connect"}) : calls[i].kind = "exit" /\ calls[i].code = 1)
        => /\ pc = "done"
           /\ result.kind = "response" /\ ~result.ok /\ result.step = "adb_connect"
           /\ CallsOf({"su_id", "id"}) = {}

C10_Witness ==
    /\ op = "connect" /\ pc = "done"
    /\ req.method = M_wifi /\ req.ip_port # EMPTY
    /\ \E i \in CallsOf({"connect"}) : calls[i].kind = "exit" /\ calls[i].code = 1
    /\ result.step = "adb_connect"

\* the operation that starts in this step is a direct call of
\* decrypt_whatsapp_db for a case whose key or encrypted database is missing
DecryptStartsWithMissingInput ==
    /\ runs' = runs + 1 /\ op' = "decrypt"
    /\ ~fs[key_path(req'.case_id)].exists \/ ~fs[crypt_path(req'.case_id)].exists

\* C11: whenever the key file or the encrypted database file is missing from
\* the Evidence directory, decrypt_whatsapp_db returns at once with ok = false
\* and an error for a path that is missing, invokes no external process, and
\* leaves the directories and all files as they were (no Decrypted directory,
\* no file created).
C11_MissingInputNoTool ==
    [][DecryptStartsWithMissingInput
          => /\ pc' = "done"
             /\ result'.kind = "return" /\ ~result'.ok /\ result'.step = "decrypt"
             /\ result'.extra.error \in {"Missing key file", "Missing crypt DB"}
             /\ result'.extra.path \in {key_path(req'.case_id), crypt_path(req'.case_id)}
             /\ ~fs[result'.extra.path].exists
             /\ calls' = <<>>
             /\ dirs' = dirs /\ fs' = fs
             /\ DirPath(req'.case_id, "Decrypted") \notin dirs'
             /\ ~fs'[out_db_path(req'.case_id)].exists]_vars

\* decrypt returned the missing-input error for the encrypted database, the
\* key being present
C11_Witness ==
    /\ op = "decrypt" /\ pc = "done"
    /\ fs[key_path(req.case_id)].exists /\ ~fs[crypt_path(req.case_id)].exists
    /\ result.extra.error = "Missing crypt DB"
    /\ result.extra.path = crypt_path(req.case_id)
    /\ calls = <<>>
    /\ DirPath(req.case_id, "Decrypted") \notin dirs

\* C12: decrypt_whatsapp_db returns ok = true exactly when both input files
\* exist, the tool was invoked and exited with code 0, and the output file
\* Cases/<case>/Decrypted/msgstore_decrypted.db exists with non-zero size
\* after the invocation; in every other case it returns ok = false.
C12_OkIffToolProducedOutput ==
    (op = "decrypt" /\ pc = "done") =>
        /\ result.kind = "return"
        /\ result.ok <=>
              /\ fs[key_path(req.case_id)].exists /\ fs[crypt_path(req.case_id)].exists
              /\ \E i \in CallsOf({"wadecrypt"}) : calls[i].kind = "exit" /\ calls[i].code = 0
              /\ fs[out_db_path(req.case_id)].exists
              /\ Len(fs[out_db_path(req.case_id)].bytes) > 0
        /\ result.ok => result.extra.decrypted_db = out_db_path(req.case_id)

\* decrypt succeeded: the tool exited 0 and left a non-empty output file
C12_Witness ==
    /\ op = "decrypt" /\ pc = "done" /\ result.ok
    /\ CallsOf({"wadecrypt"}) # {}
    /\ Len(fs[out_db_path(req.case_id)].bytes) > 0

\* C13: when the decrypt binary is missing or the tool exceeds timeout_sec,
\* decrypt_whatsapp_db returns a value with ok = false (tool not found,
\* respectively timeout) and does not raise; and a run of api_run_workflow
\* that is given a path where no decrypt binary is, and whose acquisition
\* reported both entries Success, ends with ok = false at step "decrypt".
C13_ToolFailureIsDecryptFailure ==
    /\ (op = "decrypt" /\ pc = "done") =>
          \A i \in CallsOf({"wadecrypt"}) :
              /\ calls[i].kind = "FileNotFoundError" =>
                    /\ result.kind = "return" /\ ~result.ok
                    /\ result.extra.error = "wadecrypt not found"
              /\ calls[i].kind = "TimeoutExpired" =>
                    /\ result.kind = "return" /\ ~result.ok
                    /\ result.extra.error = "Timeout after"
                    /\ result.extra.timeout_sec = req.timeout_sec
    /\ (op = "workflow" /\ pc = "done" /\ req.wadecrypt_path = NoSuchTool /\ BothSuccess) =>
          /\ result.kind = "response" /\ ~result.ok /\ result.step = "decrypt"

\* the first half of C13 alone: what decrypt_whatsapp_db returns when the
\* binary is missing or the tool times out
DecryptToolFailureReturned ==
    (op = "decrypt" /\ pc = "done") =>
        \A i \in CallsOf({"wadecrypt"}) :
            calls[i].kind \in {"FileNotFoundError", "TimeoutExpired"} =>
                /\ result.kind = "return" /\ ~result.ok
                /\ result.extra.error \in {"wadecrypt not found", "Timeout after"}

\* the two local evidence paths of a case
EvidencePaths(case) ==
    {JoinPath(DirPath(case, "Evidence"), files_to_pull[i].name) : i \in 1..Len(files_to_pull)}

\* the latest run of pull_whatsapp_evidence has returned and the run before
\* it was for the same case
SecondRunReturned ==
    /\ InPull /\ pc \in {"acq_return", "done"}
    /\ Len(results) = Len(files_to_pull)
    /\ Len(earlier.hashes) = Len(files_to_pull)
    /\ earlier.case = acq_case

\* C14: a run of pull_whatsapp_evidence for a case that was acquired before
\* writes to the same two local evidence paths and to no other file; a pulled
\* file's content replaces what was there (it is the content of the device
\* file as long as that is not rewritten, nothing appended); and if the device file of an entry was not rewritten
\* since the earlier run and both runs report Success for the entry, the
\* second run's hash equals the first run's hash.
C14_RerunOverwritesSameHash ==
    /\ \A p \in LocalPaths :
          fs[p].exists => \E c \in CaseIds : p \in EvidencePaths(c)
    /\ (InPull /\ pc \in {"acq_return", "done"}) =>
          \A i \in 1..Len(results) :
              results[i].status = "Success" =>
                  /\ results[i].path = JoinPath(DirPath(acq_case, "Evidence"), files_to_pull[i].name)
                  /\ files_to_pull[i].path \notin written =>
                        fs[results[i].path] = android[files_to_pull[i].path]
    /\ SecondRunReturned =>
          \A i \in 1..Len(results) :
              (/\ results[i].status = "Success"
               /\ earlier.hashes[i] # NoHash
               /\ files_to_pull[i].path \notin earlier.changed)
                  => results[i].hash = earlier.hashes[i]

\* a second run for the same case, the device unchanged, both entries Success
\* in both runs with non-empty files, reporting the hashes of the first run
C14_Witness ==
    /\ SecondRunReturned /\ runs = 2
    /\ earlier.changed = {}
    /\ BothSuccess
    /\ \A i \in 1..2 :
          /\ earlier.hashes[i] # NoHash
          /\ results[i].hash = earlier.hashes[i]
          /\ Len(fs[results[i].path].bytes) > 0

\* a second run for the same case after the device database was rewritten:
\* both runs report Success for it, with different hashes
RerunAfterRewrite ==
    /\ SecondRunReturned
    /\ android_db \in earlier.changed
    /\ results[1].status = "Success" /\ earlier.hashes[1] # NoHash
    /\ results[1].hash # earlier.hashes[1]

\* C15: adb_root_check never raises: whenever api_connect has called it, for
\* every outcome of its two sub-checks (a timeout and a missing adb binary
\* included) it has returned a result with ok = true and a boolean rooted,
\* and api_connect has answered with a response.
C15_RootCheckNeverRaises ==
    (op = "connect" /\ pc = "done" /\ CallsOf({"su_id", "id"}) # {})
        => /\ root.ok /\ root.rooted \in BOOLEAN
           /\ result.kind = "response"

\* adb_root_check returned whenever both of its sub-checks exited, whatever
\* their exit codes and output
RootCheckReturnsWhenProcessesExit ==
    (/\ op = "connect" /\ pc = "done" /\ CallsOf({"su_id", "id"}) # {}
     /\ \A i \in CallsOf({"su_id", "id"}) : calls[i].kind = "exit")
        => /\ root.ok /\ root.rooted \in BOOLEAN
           /\ result.kind = "response" /\ result.step \in {"root_check", "connected"}

\* C16: every operation that has started ends with a result, even when an
\* external process it invoked never exits: every invocation is bounded by a
\* timeout, which is turned into a failure of the stage.
C16_EveryOperationReturns ==
    (pc \notin {"idle", "done"})
        ~> (pc = "done" /\ result.kind \in {"response", "return"})

\* an invocation that did not exit with code 0
CallFailed(c) == c.kind # "exit" \/ c.code # 0
\* the step name api_connect gives to a failure of its i-th invocation
StepOfCall(i) ==
    IF calls[i].cmd = "connect" THEN "adb_connect"
    ELSE IF i = 1 THEN "devices"
    ELSE "devices_after_connect"

\* C17: when a bridge-tool call of the probe or connect stage of api_connect
\* fails (non-zero exit, timeout, missing binary), the run ends with a
\* response that has ok = false and the name of the failing step; no failure
\* leaves the route as an unhandled exception.
C17_ProbeConnectFailureTagged ==
    (op = "connect" /\ pc = "done") =>
        \A i \in CallsOf({"devices", "connect"}) :
            CallFailed(calls[i])
                => /\ result.kind = "response" /\ ~result.ok
                   /\ result.step = StepOfCall(i)

\* the part of C17 about exit codes: a probe or connect call that exits with
\* a non-zero code ends the run with ok = false at the step of that call
NonZeroExitTagged ==
    (op = "connect" /\ pc = "done") =>
        \A i \in CallsOf({"devices", "connect"}) :
            (calls[i].kind = "exit" /\ calls[i].code # 0)
                => /\ result.kind = "response" /\ ~result.ok
                   /\ result.step = StepOfCall(i)

\* the i-th invocation exited with code 0
ExitedZero(i) == calls[i].kind = "exit" /\ calls[i].code = 0
\* the devices the i-th invocation, an adb devices, enumerated
Enumerated(i) == ParseDevices(calls[i].out)
\* the output of the i-th invocation contains "connected", in any case
SaysConnected(i) == Contains(Lower(calls[i].out \o <<" ">> \o calls[i].err), STR_connected)
\* no root sub-check was invoked
NoRootCheck == CallsOf({"su_id", "id"}) = {}

\* C18: for method usb api_connect never invokes adb connect; when the first
\* adb devices enumerates no device, the run ends with ok = false at step
\* "usb" with the message to enable USB debugging, and no root sub-check is
\* invoked.
C18_UsbNoConnectStep ==
    (op = "connect" /\ req.method = M_usb) =>
        /\ CallsOf({"connect"}) = {}
        /\ (Len(calls) >= 1 /\ ExitedZero(1) /\ Enumerated(1) = <<>>) =>
              /\ pc = "done" /\ Len(calls) = 1
              /\ result.kind = "response" /\ ~result.ok /\ result.step = "usb"
              /\ result.extra.error = "No USB device found. Enable USB Debugging."
              /\ NoRootCheck

\* a usb run that found no device: the only device attached is unauthorized
C18_Witness ==
    /\ op = "connect" /\ req.method = M_usb /\ pc = "done"
    /\ Len(calls) = 1 /\ ExitedZero(1)
    /\ calls[1].out = <<HeaderLine, <<"SER_A", "unauthorized">> >>
    /\ result.step = "usb"

\* C19: for method wifi with a non-empty address, the run gets past the
\* connect stage only if adb connect exited with code 0 and its stdout or
\* stderr contains "connected" (in any case); after such a connect adb devices
\* is run again, and if it exits non-zero or enumerates no device the run
\* ends with ok = false at step "devices_after_connect" with no root
\* sub-check.
C19_WifiConnectThenReprobe ==
    (op = "connect" /\ req.method = M_wifi /\ req.ip_port # EMPTY /\ Len(calls) >= 2) =>
        /\ calls[2].cmd = "connect"
        /\ (pc = "devices_after_connect" \/ Len(calls) >= 3) <=>
              (ExitedZero(2) /\ SaysConnected(2))
        /\ Len(calls) >= 3 =>
              /\ calls[3].cmd = "devices"
              /\ (calls[3].kind = "exit" /\ (calls[3].code # 0 \/ Enumerated(3) = <<>>)) =>
                    /\ pc = "done" /\ Len(calls) = 3
                    /\ result.kind = "response" /\ ~result.ok
                    /\ result.step = "devices_after_connect"
                    /\ NoRootCheck
              /\ calls[3].kind # "exit" => NoRootCheck

\* adb connect printed "Connected to ..." and exited 0, and the device list
\* after it was empty
C19_Witness ==
    /\ op = "connect" /\ req.method = M_wifi /\ req.ip_port # EMPTY /\ pc = "done"
    /\ Len(calls) = 3
    /\ ExitedZero(2) /\ calls[2].out = OUT_Connected_upper
    /\ ExitedZero(3) /\ Enumerated(3) = <<>>
    /\ result.step = "devices_after_connect"

\* the position in calls of the latest adb devices
LastProbe ==
    CHOOSE i \in CallsOf({"devices"}) : \A j \in CallsOf({"devices"}) : j <= i

\* C20: once api_connect is past the device selection, the selected serial
\* is the first device, in enumeration order, of the latest device list (the
\* list after the connect for wifi, the first list for usb); that serial is
\* the one passed to both root sub-checks and the one reported in the
\* successful response.
C20_FirstDeviceSelected ==
    (op = "connect" /\ (pc \in {"su_id", "id"} \/ ~NoRootCheck)) =>
        /\ LastProbe = IF req.method = M_wifi THEN 3 ELSE 1
        /\ Enumerated(LastProbe) # <<>>
        /\ pc \in {"su_id", "id"} => serial = Enumerated(LastProbe)[1]
        /\ \A i \in CallsOf({"su_id", "id"}) : calls[i].arg = Enumerated(LastProbe)[1]
        /\ (pc = "done" /\ result.kind = "response" /\ result.ok) =>
              result.extra.serial = Enumerated(LastProbe)[1]

\* a successful wifi run with two devices enumerated after the connect, the
\* first of them reported
C20_Witness ==
    /\ op = "connect" /\ req.method = M_wifi /\ pc = "done"
    /\ result.kind = "response" /\ result.ok
    /\ Len(calls) >= 4
    /\ Enumerated(3) = <<"SER_B", "SER_A">>
    /\ Enumerated(1) # Enumerated(3)
    /\ calls[4].arg = "SER_B"
    /\ result.extra.serial = "SER_B"

\* a line of the adb devices output that lists a device in state "device"
ListsReadyDevice(line) ==
    /\ ~StartsWithHeader(line)
    /\ Len(line) >= 2 /\ line[2] = "device"
\* the first tokens of the lines of out that list a device in state "device"
ReadySerials(out) ==
    LET ready == SelectSeq(out, ListsReadyDevice)
    IN  [i \in 1..Len(ready) |-> ready[i][1]]

\* C21: when adb devices exits with code 0, adb_devices returns exactly the
\* serials of the non-header output lines whose second token is "device", in
\* output order; a device listed only in another state (offline,
\* unauthorized) is not in the returned list.
C21_OnlyReadyDevicesListed ==
    (op = "connect" /\ dev.ok) =>
        /\ dev.devices = ReadySerials(dev.stdout)
        /\ \A k \in 1..Len(dev.stdout) :
              LET line == dev.stdout[k]
              IN  (Len(line) >= 2 /\ line[2] \in {"offline", "unauthorized"})
                      => \A j \in 1..Len(dev.devices) : dev.devices[j] # line[1]

\* adb devices listed an offline device before a ready one: only the ready
\* one was returned
C21_Witness ==
    /\ op = "connect" /\ pc = "adb_connect" /\ dev.ok
    /\ dev.stdout = <<HeaderLine, <<"SER_A", "offline">>, <<"SER_B", "device">> >>
    /\ dev.devices = <<"SER_B">>

\* C22: when the first adb devices exits with a non-zero code, adb_devices
\* returns ok = false with an empty device list and api_connect ends with
\* ok = false at step "devices": adb devices is not invoked again, and
\* neither adb connect nor a root sub-check is invoked.
C22_ProbeFailureStops ==
    (op = "connect" /\ Len(calls) >= 1 /\ calls[1].kind = "exit" /\ calls[1].code # 0) =>
        /\ pc = "done" /\ Len(calls) = 1
        /\ result.kind = "response" /\ ~result.ok /\ result.step = "devices"
        /\ ~result.extra.detail.ok /\ result.extra.detail.devices = <<>>

C22_Witness ==
    /\ op = "connect" /\ pc = "done" /\ req.method = M_wifi
    /\ Len(calls) = 1 /\ calls[1].cmd = "devices"
    /\ calls[1].kind = "exit" /\ calls[1].code = 1
    /\ result.step = "devices" /\ result.http = 400

\* the output of the i-th invocation contains "uid=0"
PrintsUid0(i) == Contains(calls[i].out, STR_uid0)
\* the i-th invocation exited with code 0 and its output contains "uid=0"
ExitsZeroWithUid0(i) == ExitedZero(i) /\ PrintsUid0(i)

\* adb_root_check as C23 describes it, Reports(i) being the test by which
\* the i-th invocation counts as reporting root; runs in which a sub-check
\* raised are left to C15
RootCheckOrder(Reports(_)) ==
    (/\ op = "connect" /\ ~NoRootCheck
     /\ \A i \in CallsOf({"su_id", "id"}) : calls[i].kind = "exit") =>
        LET su == CallsOf({"su_id"})
            id == CallsOf({"id"})
        IN  /\ Cardinality(su) = 1 /\ Cardinality(id) <= 1
            /\ \A i \in su, j \in id : i < j
            /\ \A i \in su :
                  IF Reports(i)
                  THEN /\ id = {} /\ pc = "done"
                       /\ root.ok /\ root.rooted /\ root.method = "su"
                  ELSE /\ pc = "id" \/ id # {}
                       /\ \A j \in id :
                             /\ pc = "done" /\ root.ok
                             /\ IF Reports(j)
                                THEN root.rooted /\ root.method = "id"
                                ELSE ~root.rooted /\ root.method = "su/id"

InvokesCollector ==
    /\ Len(calls') = Len(calls) + 1
    /\ calls'[Len(calls')].cmd \in {"cp", "pull", "rm"}

\* the operation has returned a failure (or left as an exception)
RunFailed ==
    /\ pc = "done"
    /\ \/ result.kind = "exception"
       \/ result.kind = "response" /\ ~result.ok

\* a run that has failed invokes no further external process: the next
\* invocation belongs to a new operation, which starts with no invocation
FailedRunStops == [][RunFailed => calls' = <<>>]_vars

\* C24: over any sequence of operations the Evidence Collector is invoked
\* only when the root check before it has reported rooted = true, and a run
\* that has failed invokes no further external process.
C24_CollectorOnlyAfterRoot ==
    [][/\ InvokesCollector => (root.ok /\ root.rooted)
       /\ RunFailed => calls' = <<>>]_vars

\* the step a log entry of api_connect or api_run_workflow is about
StepOfLog(msg) ==
    CASE msg = "Checking ADB devices..." -> "devices"
      [] msg = "ADB connect to" -> "adb_connect"
      [] msg = "Device detected" -> "select"
      [] msg \in {"Checking root access...", "Root access OK.",
                  "Device is NOT rooted. Root required to continue."} -> "root_check"
      [] msg \in {"Running acquisition for", "Acquisition failed.",
                  "Acquisition completed."} -> "acquisition"
      [] msg \in {"Decrypting WhatsApp database...", "Decryption failed.",
                  "Decryption completed."} -> "decrypt"
      [] OTHER -> "none"

\* within one run the log only grows at its end
LogAppendOnly ==
    [][runs' = runs =>
          /\ Len(logs') >= Len(logs)
          /\ SubSeq(logs', 1, Len(logs)) = logs]_vars

\* a run of api_connect or api_run_workflow has returned a failure result
FailureReturned ==
    /\ op \in {"connect", "workflow"} /\ pc = "done"
    /\ result.kind = "response" /\ ~result.ok

\* C25: the log returned with a failure result of a workflow run contains
\* an entry for the step that failed (the log is append-only and every
\* transition, also the one into the failed state, appends an entry).
C25_FailureLogNamesStep ==
    FailureReturned =>
        \E k \in 1..Len(result.logs) : StepOfLog(result.logs[k].msg) = result.step

\* the staging-removal command was invoked for the manifest entry name
RemovalInvoked(name) == \E i \in CallsFor(name) : calls[i].cmd = "rm"
\* no invocation of the staging-removal command for name failed
RemovalWorks(name) ==
    \A i \in CallsFor(name) : calls[i].cmd = "rm" => ExitedZero(i)

\* C26: when the collector returns, for every manifest entry whose privileged
\* cp succeeded the staging-removal command has been invoked, whether or not
\* the pull succeeded, and, when that command works, no staging copy of the
\* entry remains on the device.
C26_StagingAlwaysRemoved ==
    CollectorReturns =>
        \A k \in 1..Len(files_to_pull) :
            LET name == files_to_pull[k].name
            IN  StepOk("cp", name) =>
                    /\ RemovalInvoked(name)
                    /\ RemovalWorks(name) => ~android[StagingPath(name)].exists

\* the same for the entries that were pulled: there the removal is invoked
PulledEntriesRemoved ==
    CollectorReturns =>
        \A k \in 1..Len(files_to_pull) :
            LET name == files_to_pull[k].name
            IN  StepOk("pull", name) =>
                    /\ RemovalInvoked(name)
                    /\ RemovalWorks(name) => ~android[StagingPath(name)].exists

\* the case directory a local path lies in
DirOf(p) == SubSeq(p, 1, 3)
\* this step invokes the decrypt tool
InvokesTool ==
    /\ Len(calls') = Len(calls) + 1
    /\ calls'[Len(calls')].cmd = "wadecrypt"

\* C27: a local evidence or output file is only written into a case
\* directory that has been created before, the Decrypted directory exists
\* before the decrypt tool is invoked, creating a directory that exists
\* changes nothing, and no step of the collector, of decrypt or of the
\* workflow removes a case directory or a file present in one.
C27_DirsBeforeFilesNeverDeleted ==
    [][/\ \A p \in LocalPaths : fs'[p] # fs[p] => DirOf(p) \in dirs
       /\ InvokesTool => DirPath(req.case_id, "Decrypted") \in dirs
       /\ dirs \subseteq dirs'
       /\ dirs' \ dirs \subseteq {DirPath(req'.case_id, "Evidence"),
                                    DirPath(req'.case_id, "Decrypted")}
       /\ \A p \in LocalPaths : fs[p].exists => fs'[p].exists]_vars

\* a key file placed by hand was pulled over by a run of the collector for
\* the same case, whose Evidence directory existed already, and the decrypt
\* run after it wrote its output into the Decrypted directory
C27_Witness ==
    /\ op = "decrypt" /\ pc = "done" /\ runs = 2 /\ result.ok
    /\ req.case_id = DEFAULT_CASE_ID /\ acq_case = DEFAULT_CASE_ID
    /\ Len(results) = 2 /\ results[2].status = "Success"
    /\ dirs = {DirPath(DEFAULT_CASE_ID, "Evidence"), DirPath(DEFAULT_CASE_ID, "Decrypted")}
    /\ fs[key_path(DEFAULT_CASE_ID)].exists
    /\ fs[out_db_path(DEFAULT_CASE_ID)].exists

\* a run of the collector after api_connect selected and root-verified a device
CollectorAfterConnect ==
    InPull /\ serial # "None" /\ root.ok /\ root.rooted

\* C28: whatever devices are attached while the collector runs, each of its
\* cp, pull and rm commands acts on the device api_connect selected and
\* root-verified, never on another one.
C28_CollectorTargetsSelected ==
    CollectorAfterConnect =>
        \A i \in CallsOf({"cp", "pull", "rm"}) :
            \A att \in SUBSET KnownSerials : RunsOn(calls[i], att) \subseteq {serial}

\* the commands of the root check act on the selected device only
RootCheckTargetsSelected ==
    (op = "connect" /\ pc \in {"su_id", "id"}) =>
        \A i \in CallsOf({"su_id", "id"}) :
            \A att \in SUBSET KnownSerials : RunsOn(calls[i], att) \subseteq {serial}

\* decrypt_whatsapp_db has returned ok = true
DecryptSucceeded ==
    /\ op \in {"decrypt", "workflow"} /\ pc = "done"
    /\ CallsOf({"wadecrypt"}) # {}
    /\ IF op = "decrypt" THEN result.ok ELSE result.ok /\ result.step = "done"

\* C29: when a decrypt invocation returns ok = true, the output file was
\* written by the tool run of that same invocation; an output file left by
\* an earlier run does not make an invocation succeed whose tool exited 0
\* without writing.
C29_SuccessMeansWrittenNow ==
    DecryptSucceeded =>
        \A i \in CallsOf({"wadecrypt"}) : calls[i].writes = "database"

\* on a case without an earlier output file, success means written now
FirstDecryptWritten ==
    (DecryptSucceeded /\ runs = 1) =>
        \A i \in CallsOf({"wadecrypt"}) : calls[i].writes = "database"

\* C30: when pull_whatsapp_evidence returns, the files the user of the device
\* kept at the staging paths /sdcard/msgstore.db and /sdcard/key exist with
\* the content they had before the run, whatever the outcome of each step.
C30_UserFilesAtStagingKept ==
    CollectorReturns => \A p \in StagingPaths : android[p] = UserFile

\* the collector never changes the two protected files it copies from
ProtectedFilesUntouched ==
    [][/\ android'[android_db] = android[android_db]
       /\ android'[android_key] = android[android_key]]_vars

\* C31: the status of an account request changes only from "pending", to
\* "approved" or to "rejected"; a request that is approved or rejected keeps
\* its status under every later approve and reject, so a request whose
\* approval created a user is never marked rejected afterwards.
C31_StatusOnlyLeavesPending ==
    [][\A i \in 1..Len(requests) :
          /\ requests'[i].status \in {"pending", "approved", "rejected"}
          /\ requests[i].status # "pending" => requests'[i].status = requests[i].status]_vars

\* approve refuses a request that is not pending, and a rejected request
\* stays rejected
ApproveOnlyPending ==
    [][\A i \in 1..Len(requests) :
          /\ (requests'[i].status = "approved" /\ requests[i].status # "approved")
                => requests[i].status = "pending"
          /\ requests[i].status = "rejected" => requests'[i].status = "rejected"]_vars

\* the routes behind login_required and admin_required
LoginRoutes == {"verify"}
AdminRoutes == {"admin_get", "approve", "reject", "revoke"}
\* the latest request was made with a token of a user who is deactivated
CallerRevoked ==
    reply.caller \in 1..Len(users) /\ ~users[reply.caller].is_active

\* C32: a request to a login_required or admin_required route made with the
\* token of a user whose access has been revoked is rejected, also when the
\* token was issued before the deactivation and has not expired.
C32_RevokedUserRejected ==
    (reply.route \in LoginRoutes \cup AdminRoutes /\ CallerRevoked)
        => reply.http \in {401, 403}

\* a revoked user is refused by the admin routes (for want of the admin
\* role) and cannot log in again
RevokedRefusedByAdminRoutesAndLogin ==
    (reply.route \in AdminRoutes \cup {"login"} /\ CallerRevoked)
        => reply.http \in {401, 403}

\* C33: over any sequence of approve, reject and revoke operations no user
\* with role admin is deactivated, so at least one active admin exists in
\* every state after initialisation.
C33_AdminsStayActive ==
    /\ \A i \in 1..Len(users) : users[i].role = "admin" => users[i].is_active
    /\ \E i \in 1..Len(users) : users[i].role = "admin" /\ users[i].is_active

\* an approved user has been deactivated, and deactivate_user has just
\* refused to deactivate the admin
C33_Witness ==
    /\ reply = Reply("deactivate_user", 0, FALSE, 0, 1)
    /\ Len(users) >= 2 /\ ~users[2].is_active
    /\ users[1].role = "admin" /\ users[1].is_active

\* the admin asked the revoke route to deactivate the admin's own account
RevokeOwnAccountRefused ==
    (reply.route = "revoke" /\ reply.caller # 0 /\ reply.target = reply.caller
        /\ reply.http \notin {401, 403})
            => reply.http = 400 /\ users[reply.caller].is_active

====
